---- MODULE Spec2Model ----
(***************************************************************************)
(* Gashapon: ticket issuance (functions/src/index.ts), the prefix-indexed  *)
(* retrieval and the session cache of the web client (src/db/index.js).    *)
(*                                                                         *)
(* Strings are sequences of UTF-16 code units (naturals), so that the      *)
(* prefix bounds and the lexicographic range scan are computed, not        *)
(* assumed.  The document store is a set of maps from keys to documents.   *)
(***************************************************************************)
EXTENDS Integers, Sequences, FiniteSets, TLC

VARIABLES
    users,        \* store collection 'users': uid -> {createdAt, shopTag}
    ticketInfo,   \* store collection 'ticket-info': code -> ticket document
    prizes,       \* store collection 'prizes': id -> prize metadata
    prizeInfo,    \* store collection 'prize-info': id -> prize info
    now,          \* the store's clock, which replaces the serverTimestamp sentinel
    nextId,       \* the next identifier that add() generates in 'prizes'
    pendingWrites,\* 'ticket-info' writes issued and not awaited, still in flight
    pendingInfo,  \* 'prize-info' writes issued and not awaited, still in flight
    lastLand,     \* history: whether the last ticket write committed on a new code
    gt,           \* the generateTickets calls
    anp,          \* the addNewPrize calls
    uli,          \* the userLoggedIn calls
    authEmail,    \* the identity provider: uid -> e-mail address
    cache,        \* the web client's session cache (src/db/index.js, var cache)
    task,         \* the web client's asynchronous calls in progress
    ret,          \* the outcome of the client call that settled last
    populated,    \* history: the last non-empty scan result stored in the cache
    deleted,      \* history: the prizes for which deletePrize has returned true
    pf            \* the prefix query under study: prefix, store keys, bounds, result

storeVars == <<users, ticketInfo, prizes, prizeInfo>>

clientVars == <<cache, task, ret, populated, deleted>>

flightVars == <<now, nextId, pendingWrites, pendingInfo, lastLand>>

serverVars == <<gt, anp, uli, authEmail>>

vars == <<storeVars, flightVars, serverVars, clientVars, pf>>

-----------------------------------------------------------------------------
(* Strings *)

\* String.fromCharCode takes its argument modulo 2^16.
CharModulus == 65536

MaxChar == CharModulus - 1

Dash == 45

\* JavaScript string order / Firestore document-name order: code unit by code unit.
RECURSIVE StrLess(_, _)
StrLess(a, b) ==
    IF b = <<>> THEN FALSE
    ELSE IF a = <<>> THEN TRUE
    ELSE IF a[1] < b[1] THEN TRUE
    ELSE IF a[1] > b[1] THEN FALSE
    ELSE StrLess(Tail(a), Tail(b))

StrLeq(a, b) == a = b \/ StrLess(a, b)

StartsWith(k, p) == Len(k) >= Len(p) /\ SubSeq(k, 1, Len(p)) = p

\* All strings over alphabet A of length lo..hi.
StringsOf(A, lo, hi) == UNION {[1..n -> A] : n \in lo..hi}

-----------------------------------------------------------------------------
(* Prefix range index: getTicketsByPrefix, lines 85-95 *)

\* var head = prefix.slice(0, len-1)
PrefixHead(prefix) ==
    IF Len(prefix) = 0 THEN <<>> ELSE SubSeq(prefix, 1, Len(prefix) - 1)

\* String.fromCharCode(tail.charCodeAt(0) + 1); the empty tail has charCodeAt NaN,
\* which fromCharCode turns into code unit 0.
TailSuccessor(prefix) ==
    IF Len(prefix) = 0 THEN 0 ELSE (prefix[Len(prefix)] + 1) % CharModulus

PrefixStart(prefix) == prefix

PrefixStop(prefix) == PrefixHead(prefix) \o <<TailSuccessor(prefix)>>

\* A mutated range predicate: the upper bound taken inclusive.
InRangeInclusive(k, start, stop) == StrLeq(start, k) /\ StrLeq(k, stop)

\* where("__name__", '>=', start), where("__name__", '<', stop)
InRange(k, start, stop) == StrLeq(start, k) /\ StrLess(k, stop)

\* The store's answer to a query on __name__: ascending by key.
RECURSIVE SortKeys(_)
SortKeys(S) ==
    IF S = {} THEN <<>>
    ELSE LET m == CHOOSE x \in S : \A y \in S : StrLeq(x, y)
         IN  <<m>> \o SortKeys(S \ {m})

RangeScan(keys, start, stop) == SortKeys({k \in keys : InRange(k, start, stop)})

-----------------------------------------------------------------------------
(* JavaScript values that the code tests for truthiness *)

Undefined == [t |-> "undefined", v |-> <<>>]

Null == [t |-> "null", v |-> <<>>]

Arr(s) == [t |-> "array", v |-> s]

Str(s) == [t |-> "string", v |-> s]

\* if (x): null, undefined and "" are falsy; every array, also [], is truthy.
Truthy(x) == x.t = "array" \/ (x.t = "string" /\ x.v # <<>>)

SeqRange(s) == {s[i] : i \in 1..Len(s)}

-----------------------------------------------------------------------------
(* Codes and documents *)

HexDigit(n) == IF n < 10 THEN 48 + n ELSE 65 + (n - 10)

\* One byte as two upper-case hex digits: toString("hex").toUpperCase()
HexByte(b) == <<HexDigit(b \div 16), HexDigit(b % 16)>>

\* crypto.randomBytes(3).toString("hex").toUpperCase()
HexSuffix(bytes) == HexByte(bytes[1]) \o HexByte(bytes[2]) \o HexByte(bytes[3])

\* `${shopTag}-${suffix}`
BuildCode(shopTag, suffix) == shopTag \o <<Dash>> \o suffix

\* The values of randomBytes(3) that the model samples.
RandomTriples == {<<0, 0, 10>>, <<0, 0, 171>>}

Suffixes == {HexSuffix(b) : b \in RandomTriples}

\* Shop tags "ab" and "abc".
ShopTags == {<<97, 98>>, <<97, 98, 99>>}

\* admin.firestore.FieldValue.serverTimestamp(): a sentinel, which the store
\* replaces by its clock (1, 2, ...) when the write commits.
ServerTimestamp == 0

TicketDoc(email, memo, ts) ==
    [createdAt |-> ts, email |-> email, memo |-> memo, orderID |-> "null",
     prizeID |-> "null", redeemed |-> FALSE, shipped |-> FALSE]

NoDoc == TicketDoc("", "", ServerTimestamp)

EmptyMap == [x \in {} |-> x]

StoreEmpty ==
    /\ users = EmptyMap
    /\ ticketInfo = EmptyMap
    /\ prizes = EmptyMap
    /\ prizeInfo = EmptyMap

-----------------------------------------------------------------------------
(* Cloud function generateTickets, functions/src/index.ts lines 143-208 *)

GtProcs == {1, 2}

\* The callers: "none" is a request without context.auth.
NoAuth == "none"

Uids == {"u1", "u2"}

Auths == {NoAuth} \cup Uids

\* if (amount > 10 || amount < 1)
MinAmount == 1

MaxAmount == 10

\* The largest valid amount the model issues.
MaxBatch == 2

Amounts == {-1, 0, MaxAmount + 1} \cup MinAmount..MaxBatch

\* A mutated range test that lets amount = 0 through.
AmountBelowZero(amount) == amount > MaxAmount \/ amount < MinAmount - 1

AmountOutOfRange(amount) == amount > MaxAmount \/ amount < MinAmount

\* data.email and data.memo of the request in slot p.
ContactOf(p) ==
    IF p = 1 THEN [email |-> "e1", memo |-> "m1"] ELSE [email |-> "e2", memo |-> "m2"]

IdleGt ==
    [pc |-> "idle", auth |-> NoAuth, amount |-> 0, shopTag |-> <<>>, i |-> 0,
     code |-> <<>>, exists |-> FALSE, tickets |-> EmptyMap, err |-> "",
     touched |-> FALSE, lost |-> {}]

IdleAnp ==
    [pc |-> "idle", auth |-> NoAuth, input |-> 0, quantity |-> 0, id |-> 0,
     err |-> "", touched |-> FALSE]

AnpProcs == {1}

NoLand == [fresh |-> TRUE]

UliProcs == {1, 2}

IdleUli ==
    [pc |-> "idle", auth |-> NoAuth, email |-> <<>>, tag |-> <<>>, result |-> "",
     err |-> "", late |-> FALSE, wrote |-> FALSE, fault |-> FALSE]

\* The addresses on record: "Al@x", "BOBBY42@x" and "Cd.eF@y@z".
Emails == {<<65, 108, 64, 120>>, <<66, 79, 66, 66, 89, 52, 50, 64, 120>>,
           <<67, 100, 46, 101, 70, 64, 121, 64, 122>>}

FixedEmails == [u \in Uids |-> <<65, 108, 64, 120>>]

ServerIdle ==
    /\ now = 1
    /\ nextId = 1
    /\ pendingWrites = {}
    /\ pendingInfo = {}
    /\ lastLand = NoLand
    /\ gt = [p \in GtProcs |-> IdleGt]
    /\ anp = [p \in AnpProcs |-> IdleAnp]
    /\ uli = [p \in UliProcs |-> IdleUli]

Settled(pc) == pc \in {"idle", "done", "failed"}

\* A slot takes its next request once the writes of its last one have settled.
SlotFree(p) == Settled(gt[p].pc) /\ \A w \in pendingWrites : w.proc # p

\* crypto.randomBytes(3) ... `${shopTag}-${suffix}`
Sampled(g, bytes) == [g EXCEPT !.code = BuildCode(g.shopTag, HexSuffix(bytes)),
                               !.pc = "exists"]

\* The request arrives: checkAuthentication, then the range test; a request that
\* passes both issues the read of /users/uid.
GenerateTickets(p, auth, amount) ==
    /\ SlotFree(p)
    /\ LET g == [IdleGt EXCEPT !.auth = auth, !.amount = amount]
       IN  gt' = [gt EXCEPT ![p] =
               IF auth = NoAuth
               THEN [g EXCEPT !.pc = "failed", !.err = "unauthenticated"]
               ELSE IF AmountOutOfRange(amount)
               THEN [g EXCEPT !.pc = "failed", !.err = "out-of-range"]
               ELSE [g EXCEPT !.pc = "user"]]
    /\ UNCHANGED <<storeVars, flightVars, anp, uli, authEmail, clientVars, pf>>

\* db.doc(`/users/${uid}`).get() answers.  Of a missing document data() is
\* undefined and data.shopTag throws inside then(), which the catch turns into
\* 'unknown'.  Otherwise the loop is entered: the first code is sampled and its
\* existence check is issued.
GtReadUser(p) ==
    /\ gt[p].pc = "user"
    /\ IF gt[p].auth \in DOMAIN users
       THEN \E b \in RandomTriples :
               gt' = [gt EXCEPT ![p] =
                   Sampled([gt[p] EXCEPT !.touched = TRUE,
                                         !.shopTag = users[gt[p].auth].shopTag], b)]
       ELSE gt' = [gt EXCEPT ![p].pc = "failed", ![p].err = "unknown",
                             ![p].touched = TRUE]
    /\ UNCHANGED <<storeVars, flightVars, anp, uli, authEmail, clientVars, pf>>

\* The read of /users/uid rejects.
GtReadUserFail(p) ==
    /\ gt[p].pc = "user"
    /\ gt' = [gt EXCEPT ![p].pc = "failed", ![p].err = "unknown", ![p].touched = TRUE]
    /\ UNCHANGED <<storeVars, flightVars, anp, uli, authEmail, clientVars, pf>>

\* (await db.doc(ticketPath).get()).exists: the store answers for the sampled code.
GtCheckExists(p) ==
    /\ gt[p].pc = "exists"
    /\ gt' = [gt EXCEPT ![p].pc = "got", ![p].exists = (gt[p].code \in DOMAIN ticketInfo)]
    /\ UNCHANGED <<storeVars, flightVars, anp, uli, authEmail, clientVars, pf>>

\* The existence check rejects; nothing catches it and the call fails.
GtCheckFail(p) ==
    /\ gt[p].pc = "exists"
    /\ gt' = [gt EXCEPT ![p].pc = "failed", ![p].err = "internal"]
    /\ UNCHANGED <<storeVars, flightVars, anp, uli, authEmail, clientVars, pf>>

\* A mutated loop test: a code is taken whatever the check said.
NeverResample(g) == FALSE

\* A mutated loop test: every code is taken for a collision.
AlwaysResample(g) == TRUE

\* while ((await db.doc(ticketPath).get()).exists)
MustResample(g) == g.exists

\* The write of line 197, issued and not awaited.
TicketWrite(p, g) ==
    [proc |-> p, i |-> g.i, code |-> g.code,
     doc |-> TicketDoc(ContactOf(p).email, ContactOf(p).memo, ServerTimestamp)]

\* The continuation after the existence check: resample on a collision; otherwise
\* build ticketData, issue the write, tickets[code] = ticketData, and go round the
\* for loop or return tickets.
GtLoop(p) ==
    /\ gt[p].pc = "got"
    /\ IF MustResample(gt[p])
       THEN /\ \E b \in RandomTriples : gt' = [gt EXCEPT ![p] = Sampled(gt[p], b)]
            /\ UNCHANGED pendingWrites
       ELSE LET w == TicketWrite(p, gt[p])
                g == [gt[p] EXCEPT !.i = @ + 1,
                                   !.tickets = [c \in DOMAIN @ \cup {w.code} |-> w.doc]]
            IN  /\ pendingWrites' = pendingWrites \cup {w}
                /\ IF g.i < g.amount
                   THEN \E b \in RandomTriples : gt' = [gt EXCEPT ![p] = Sampled(g, b)]
                   ELSE gt' = [gt EXCEPT ![p] = [g EXCEPT !.pc = "done"]]
    /\ UNCHANGED <<storeVars, now, nextId, pendingInfo, lastLand, anp, uli, authEmail, clientVars, pf>>

\* set() replaces the whole document; the store fills in the timestamp.
TicketWriteLand(w) ==
    /\ w \in pendingWrites
    /\ ticketInfo' = [c \in DOMAIN ticketInfo \cup {w.code} |->
                        IF c = w.code THEN [w.doc EXCEPT !.createdAt = now]
                        ELSE ticketInfo[c]]
    /\ pendingWrites' = pendingWrites \ {w}
    /\ lastLand' = [fresh |-> w.code \notin DOMAIN ticketInfo]
    /\ UNCHANGED <<users, prizes, prizeInfo, now, nextId, pendingInfo, serverVars,
                   clientVars, pf>>

\* The write rejects: the catch logs and throws inside a promise nobody awaits.
TicketWriteFail(w) ==
    /\ w \in pendingWrites
    /\ pendingWrites' = pendingWrites \ {w}
    /\ gt' = [gt EXCEPT ![w.proc].lost = @ \cup {w.code}]
    /\ UNCHANGED <<storeVars, now, nextId, pendingInfo, lastLand, anp, uli, authEmail, clientVars, pf>>

-----------------------------------------------------------------------------
(* Cloud function addNewPrize, functions/src/index.ts lines 212-266 *)

\* if (quantity < 0 || quantity > 999)
MinQuantity == 0

MaxQuantity == 999

\* The prizes that add() creates in one run of the model.
MaxPrizes == 1

\* data.quantity in tenths: -1, 0, 999.5, 1000.
QuantityInputs == {-10, 0, 9995, 10000}

\* parseInt of a decimal number: the digits before the point.
ParseInt(tenths) == IF tenths >= 0 THEN tenths \div 10 ELSE -((-tenths) \div 10)

\* A mutated range test that lets 1000 through.
QuantityAboveLimit(q) == q < MinQuantity \/ q > MaxQuantity + 1

QuantityOutOfRange(q) == q < MinQuantity \/ q > MaxQuantity

PrizeMetaData(uid, quantity, ts) ==
    [createdAt |-> ts, creatorUserID |-> uid, quantity |-> quantity]

PrizeInfoData(ts) ==
    [description |-> "d", image |-> "url", name |-> "n", lastModified |-> ts]

\* The request arrives: parseInt, the authentication test, the range test; a
\* request that passes issues add() on 'prizes'.
AddNewPrize(p, auth, input) ==
    /\ Settled(anp[p].pc)
    /\ LET a == [IdleAnp EXCEPT !.auth = auth, !.input = input,
                                !.quantity = ParseInt(input)]
       IN  IF auth = NoAuth
           THEN anp' = [anp EXCEPT ![p] =
                           [a EXCEPT !.pc = "failed", !.err = "unauthenticated"]]
           ELSE IF QuantityOutOfRange(a.quantity)
           THEN anp' = [anp EXCEPT ![p] =
                           [a EXCEPT !.pc = "failed", !.err = "out-of-range"]]
           ELSE /\ nextId <= MaxPrizes
                /\ anp' = [anp EXCEPT ![p] = [a EXCEPT !.pc = "add"]]
    /\ UNCHANGED <<storeVars, flightVars, gt, uli, authEmail, clientVars, pf>>

\* add() commits the metadata under a fresh identifier.  Its then() takes the id
\* and issues the 'prize-info' write without returning or awaiting it, so the
\* function returns {id, prizeMetaData, prizeInfoData} with that write in flight.
AnpAdd(p) ==
    /\ anp[p].pc = "add"
    /\ prizes' = [x \in DOMAIN prizes \cup {nextId} |->
                    IF x = nextId
                    THEN PrizeMetaData(anp[p].auth, anp[p].quantity, now)
                    ELSE prizes[x]]
    /\ nextId' = nextId + 1
    /\ pendingInfo' = pendingInfo \cup {[id |-> nextId, doc |-> PrizeInfoData(ServerTimestamp)]}
    /\ anp' = [anp EXCEPT ![p].pc = "done", ![p].id = nextId, ![p].touched = TRUE]
    /\ UNCHANGED <<users, ticketInfo, prizeInfo, now, pendingWrites, lastLand, gt,
                   uli, authEmail, clientVars, pf>>

\* add() rejects: the outer catch throws 'unknown' and the call fails.
AnpAddFail(p) ==
    /\ anp[p].pc = "add"
    /\ anp' = [anp EXCEPT ![p].pc = "failed", ![p].err = "unknown", ![p].touched = TRUE]
    /\ UNCHANGED <<storeVars, flightVars, gt, uli, authEmail, clientVars, pf>>

PrizeInfoLand(w) ==
    /\ w \in pendingInfo
    /\ prizeInfo' = [x \in DOMAIN prizeInfo \cup {w.id} |->
                        IF x = w.id THEN [w.doc EXCEPT !.lastModified = now]
                        ELSE prizeInfo[x]]
    /\ pendingInfo' = pendingInfo \ {w}
    /\ UNCHANGED <<users, ticketInfo, prizes, now, nextId, pendingWrites, lastLand,
                   serverVars, clientVars, pf>>

\* The 'prize-info' write rejects: the inner catch logs and throws inside a
\* promise nobody awaits.
PrizeInfoFail(w) ==
    /\ w \in pendingInfo
    /\ pendingInfo' = pendingInfo \ {w}
    /\ UNCHANGED <<storeVars, now, nextId, pendingWrites, lastLand, serverVars,
                   clientVars, pf>>

-----------------------------------------------------------------------------
(* Cloud function userLoggedIn and initUserAccount, functions/src/index.ts 86-140 *)

AtSign == 64

\* The length of a default shop tag: emailPrefix.length >= 5 ? 5 : emailPrefix.length
TagLength == 5

\* email.split("@")[0]: the text before the first '@', all of it if there is none.
RECURSIVE BeforeAt(_)
BeforeAt(email) ==
    IF email = <<>> \/ Head(email) = AtSign THEN <<>>
    ELSE <<Head(email)>> \o BeforeAt(Tail(email))

\* toLowerCase on the letters A-Z.
ToLower(c) == IF c >= 65 /\ c <= 90 THEN c + 32 ELSE c

\* A mutated tag: the local part is lowercased and not cut.
WholeLocalPart(email) == [k \in 1..Len(BeforeAt(email)) |-> ToLower(BeforeAt(email)[k])]

\* const defaultTag = emailPrefix.substring(0, numChars).toLowerCase()
DefaultTag(email) ==
    LET emailPrefix == BeforeAt(email)
        numChars == IF Len(emailPrefix) >= TagLength THEN TagLength ELSE Len(emailPrefix)
    IN  [k \in 1..numChars |-> ToLower(emailPrefix[k])]

\* A mutated existence test: the account is never found.
AccountNeverExists(uid) == FALSE

\* accountExists: doc.exists of users/uid
AccountExists(uid) == uid \in DOMAIN users

\* The request arrives: checkAuthentication, then admin.auth().getUser(uid).
UserLoggedIn(p, auth) ==
    /\ Settled(uli[p].pc)
    /\ uli' = [uli EXCEPT ![p] =
            IF auth = NoAuth
            THEN [IdleUli EXCEPT !.pc = "failed", !.err = "unauthenticated"]
            ELSE [IdleUli EXCEPT !.pc = "getUser", !.auth = auth,
                                 !.late = (auth \in DOMAIN users)]]
    /\ UNCHANGED <<storeVars, flightVars, gt, anp, authEmail, clientVars, pf>>

\* The identity provider answers with the user record; initUserAccount is entered
\* and accountExists issues its read.
UliGetUser(p) ==
    /\ uli[p].pc = "getUser"
    /\ uli' = [uli EXCEPT ![p].pc = "exists", ![p].email = authEmail[uli[p].auth]]
    /\ UNCHANGED <<storeVars, flightVars, gt, anp, authEmail, clientVars, pf>>

\* getUser rejects, or the read of accountExists rejects (its catch throws
\* 'unknown'): the call fails.
UliReadFail(p) ==
    /\ uli[p].pc \in {"getUser", "exists"}
    /\ uli' = [uli EXCEPT ![p].pc = "failed", ![p].fault = TRUE,
                          ![p].err = IF uli[p].pc = "getUser" THEN "internal"
                                     ELSE "unknown"]
    /\ UNCHANGED <<storeVars, flightVars, gt, anp, authEmail, clientVars, pf>>

\* accountExists answers.  An existing account ends the call with 'success';
\* otherwise the default tag is derived and the set() of users/uid is issued.
UliAccountExists(p) ==
    /\ uli[p].pc = "exists"
    /\ uli' = [uli EXCEPT ![p] =
            IF AccountExists(uli[p].auth)
            THEN [@ EXCEPT !.pc = "done", !.result = "success"]
            ELSE [@ EXCEPT !.pc = "write", !.tag = DefaultTag(uli[p].email)]]
    /\ UNCHANGED <<storeVars, flightVars, gt, anp, authEmail, clientVars, pf>>

\* await db.collection("users").doc(uid).set(userData) commits: the document is
\* replaced whole, createdAt filled in by the store; the call answers 'created'.
UliWrite(p) ==
    /\ uli[p].pc = "write"
    /\ users' = [u \in DOMAIN users \cup {uli[p].auth} |->
                    IF u = uli[p].auth
                    THEN [createdAt |-> now, shopTag |-> uli[p].tag]
                    ELSE users[u]]
    /\ uli' = [uli EXCEPT ![p].pc = "done", ![p].result = "created", ![p].wrote = TRUE]
    /\ UNCHANGED <<ticketInfo, prizes, prizeInfo, flightVars, gt, anp, authEmail,
                   clientVars, pf>>

\* The set() rejects: the catch throws 'unknown'.
UliWriteFail(p) ==
    /\ uli[p].pc = "write"
    /\ uli' = [uli EXCEPT ![p].pc = "failed", ![p].err = "unknown", ![p].fault = TRUE]
    /\ UNCHANGED <<storeVars, flightVars, gt, anp, authEmail, clientVars, pf>>

\* The store's clock at most reaches MaxClock in the model.
MaxClock == 3

Tick ==
    /\ now < MaxClock
    /\ now' = now + 1
    /\ UNCHANGED <<storeVars, nextId, pendingWrites, pendingInfo, lastLand, serverVars,
                   clientVars, pf>>

-----------------------------------------------------------------------------
(* The session cache and the ticket lookup of the web client, src/db/index.js *)

Tasks == {1, 2}

\* An element of cache.ticketData: a ticket record, or (after [data]) a nested array.
TicketRec(id, code, doc) ==
    [t |-> "ticket", id |-> id, code |-> code, doc |-> doc, items |-> <<>>]

NestedArr(data) ==
    [t |-> "array", id |-> 0, code |-> <<>>, doc |-> NoDoc, items |-> data]

InitialCache ==
    [shopTag |-> Null, ticketData |-> Arr(<<>>), prizeData |-> Null, uid |-> Null]

\* cache = {}
ClearedCache ==
    [shopTag |-> Undefined, ticketData |-> Undefined, prizeData |-> Undefined,
     uid |-> Undefined]

NoInfo == [exists |-> FALSE, data |-> PrizeInfoData(ServerTimestamp)]

IdleTask ==
    [op |-> "none", pc |-> "idle", prefix |-> <<>>, start |-> <<>>, stop |-> <<>>,
     snap |-> <<>>, arg |-> "", id |-> 0, i |-> 0, acc |-> <<>>, got |-> NoInfo,
     after |-> {}, gone |-> {}]

\* A settled call: what it was, how it ended, what it returned, and whether it
\* invoked the store's range scan.
NoReturn ==
    [op |-> "none", prefix |-> <<>>, ok |-> FALSE, result |-> <<>>, scanned |-> FALSE,
     uid |-> "", id |-> 0, after |-> {}, tag |-> Null, gone |-> {}]

Returned(op, prefix, ok, result, scanned) ==
    [NoReturn EXCEPT !.op = op, !.prefix = prefix, !.ok = ok, !.result = result,
                     !.scanned = scanned]

NotPopulated == [valid |-> FALSE, prefix |-> <<>>, data |-> <<>>]

ClientIdle ==
    /\ cache = InitialCache
    /\ task = [t \in Tasks |-> IdleTask]
    /\ ret = NoReturn
    /\ populated = NotPopulated
    /\ deleted = {}

clearCachedData ==
    /\ cache' = ClearedCache
    /\ populated' = NotPopulated
    /\ UNCHANGED <<storeVars, flightVars, serverVars, task, ret, deleted, pf>>

\* The loop of saveTicketsToMemory: data[i].id = length+1, then concat.
RECURSIVE AppendWithIds(_, _)
AppendWithIds(cached, data) ==
    IF data = <<>> THEN cached
    ELSE AppendWithIds(Append(cached, [Head(data) EXCEPT !.id = Len(cached) + 1]),
                       Tail(data))

SavedTickets(c, data) ==
    IF Truthy(c.ticketData)
    THEN Arr(AppendWithIds(c.ticketData.v, data))
    ELSE Arr(<<NestedArr(data)>>)

MaxCached == 3

SessionCodes == {BuildCode(<<97, 98>>, s) : s \in Suffixes}
                    \cup {BuildCode(<<97, 98, 99>>, HexSuffix(<<0, 0, 10>>))}

\* The arrays handed to saveTicketsToMemory: one new record of shop "ab".
SaveInputs == {<<TicketRec(0, BuildCode(<<97, 98>>, s), NoDoc)>> : s \in Suffixes}

saveTicketsToMemory(data) ==
    /\ Len(cache.ticketData.v) + Len(data) <= MaxCached
    /\ cache' = [cache EXCEPT !.ticketData = SavedTickets(cache, data)]
    /\ populated' = NotPopulated
    /\ UNCHANGED <<storeVars, flightVars, serverVars, task, ret, deleted, pf>>

\* A mutated cache test: the cache is never used.
CacheMiss(c) == FALSE

\* A mutated cache test without the length: an empty array is a hit.
CacheTruthy(c) == Truthy(c.ticketData)

\* if (cache.ticketData && cache.ticketData.length > 0)
CacheHasTickets(c) == Truthy(c.ticketData) /\ Len(c.ticketData.v) > 0

\* The synchronous part of getTicketsByPrefix: the bounds, the query, the cache
\* test.  On a hit the call returns the cached array; on a miss getDocs(q) is
\* invoked and the call suspends.
ListStart(t, prefix) ==
    /\ task[t].pc = "idle"
    /\ IF CacheHasTickets(cache)
       THEN /\ ret' = Returned("getTicketsByPrefix", prefix, TRUE,
                               cache.ticketData.v, FALSE)
            /\ UNCHANGED task
       ELSE /\ task' = [task EXCEPT ![t] =
                [IdleTask EXCEPT !.op = "getTicketsByPrefix", !.pc = "scan",
                                 !.prefix = prefix,
                                 !.start = PrefixStart(prefix),
                                 !.stop = PrefixStop(prefix)]]
            /\ UNCHANGED ret
    /\ UNCHANGED <<storeVars, flightVars, serverVars, cache, populated, deleted, pf>>

\* The calls that run the body of getTicketsByPrefix: the function itself, and
\* getTicketsGeneratedByUser, which returns getTicketsByPrefix(prefix).
ListOps == {"getTicketsByPrefix", "getTicketsGeneratedByUser"}

\* The store runs the range scan and answers with the documents in key order.
ListScan(t) ==
    /\ task[t].op \in ListOps /\ task[t].pc = "scan"
    /\ LET keys == RangeScan(DOMAIN ticketInfo, task[t].start, task[t].stop)
       IN  task' = [task EXCEPT ![t].pc = "snap",
                                ![t].snap = [i \in 1..Len(keys) |->
                                    [id |-> keys[i], data |-> ticketInfo[keys[i]]]]]
    /\ UNCHANGED <<storeVars, flightVars, serverVars, cache, ret, populated, deleted, pf>>

\* getDocs rejects: the call fails, the cache is left as it is.
ListScanFail(t) ==
    /\ task[t].op \in ListOps /\ task[t].pc = "scan"
    /\ task' = [task EXCEPT ![t] = IdleTask]
    /\ ret' = [Returned(task[t].op, task[t].prefix, FALSE, <<>>, TRUE)
                  EXCEPT !.uid = task[t].arg]
    /\ UNCHANGED <<storeVars, flightVars, serverVars, cache, populated, deleted, pf>>

\* snap.forEach: d.id = data.length+1, d.code = doc.id, data.push(d)
SnapToData(snap) ==
    [i \in 1..Len(snap) |-> TicketRec(i, snap[i].id, snap[i].data)]

\* The continuation after await getDocs(q): build data, store it in the cache,
\* return it.
ListFinish(t) ==
    /\ task[t].op \in ListOps /\ task[t].pc = "snap"
    /\ LET data == SnapToData(task[t].snap)
       IN  /\ cache' = [cache EXCEPT !.ticketData = Arr(data)]
           /\ ret' = [Returned(task[t].op, task[t].prefix, TRUE, data, TRUE)
                         EXCEPT !.uid = task[t].arg]
           /\ populated' = IF data # <<>>
                           THEN [valid |-> TRUE, prefix |-> task[t].prefix,
                                 data |-> data]
                           ELSE populated
    /\ task' = [task EXCEPT ![t] = IdleTask]
    /\ UNCHANGED <<storeVars, flightVars, serverVars, deleted, pf>>

-----------------------------------------------------------------------------
(* The shop tag of the signed-in user, src/db/index.js lines 116-149 *)

TagReturned(uid, ok, tag, read) ==
    [NoReturn EXCEPT !.op = "getUserShopTag", !.uid = uid, !.ok = ok, !.tag = tag,
                     !.scanned = read]

\* A mutated read: for a missing users document an empty tag is made up.
FabricatedTag(uid) ==
    IF uid \in DOMAIN users THEN Str(users[uid].shopTag) ELSE Str(<<>>)

\* snapshot.exists() ? snapshot.data().shopTag : null
SnapshotTag(uid) ==
    IF uid \in DOMAIN users THEN Str(users[uid].shopTag) ELSE Null

\* cache.shopTag = tag, in the branch of an existing document only.
CacheWithTag(c, tag) == IF tag = Null THEN c ELSE [c EXCEPT !.shopTag = tag]

\* getUserShopTag is entered: a cached tag is returned whatever the uid;
\* otherwise getDoc(users/uid) is invoked and the call suspends.
TagStart(t, uid) ==
    /\ task[t].pc = "idle"
    /\ IF Truthy(cache.shopTag)
       THEN /\ ret' = TagReturned(uid, TRUE, cache.shopTag, FALSE)
            /\ UNCHANGED task
       ELSE /\ task' = [task EXCEPT ![t] =
                [IdleTask EXCEPT !.op = "getUserShopTag", !.pc = "tagread",
                                 !.arg = uid]]
            /\ UNCHANGED ret
    /\ UNCHANGED <<storeVars, flightVars, serverVars, cache, populated, deleted, pf>>

\* The store answers getDoc (the users collection does not change while a
\* session runs) and the continuation runs: an existing document's tag is cached
\* and returned; for a missing one the alert is shown and null is returned.
TagRead(t) ==
    /\ task[t].op = "getUserShopTag" /\ task[t].pc = "tagread"
    /\ LET tag == SnapshotTag(task[t].arg)
       IN  /\ cache' = CacheWithTag(cache, tag)
           /\ ret' = TagReturned(task[t].arg, TRUE, tag, TRUE)
    /\ task' = [task EXCEPT ![t] = IdleTask]
    /\ UNCHANGED <<storeVars, flightVars, serverVars, populated, deleted, pf>>

\* getDoc rejects: nothing catches it, the call fails.
TagFail(t) ==
    /\ task[t].op \in {"getUserShopTag", "getTicketsGeneratedByUser"}
    /\ task[t].pc = "tagread"
    /\ ret' = [NoReturn EXCEPT !.op = task[t].op, !.uid = task[t].arg, !.scanned = TRUE]
    /\ task' = [task EXCEPT ![t] = IdleTask]
    /\ UNCHANGED <<storeVars, flightVars, serverVars, cache, populated, deleted, pf>>

\* The synchronous part of getTicketsByPrefix(prefix) when called for uid by op:
\* the cached array on a hit, the range scan on a miss.
ListEntry(t, op, uid, prefix) ==
    IF CacheHasTickets(cache)
    THEN /\ ret' = [Returned(op, prefix, TRUE, cache.ticketData.v, FALSE)
                      EXCEPT !.uid = uid]
         /\ task' = [task EXCEPT ![t] = IdleTask]
    ELSE /\ task' = [task EXCEPT ![t] =
                [IdleTask EXCEPT !.op = op, !.pc = "scan", !.arg = uid,
                                 !.prefix = prefix,
                                 !.start = PrefixStart(prefix),
                                 !.stop = PrefixStop(prefix)]]
         /\ UNCHANGED ret

\* getTicketsGeneratedByUser is entered: with a cached tag getUserShopTag returns
\* without suspending and getTicketsByPrefix is called with it; otherwise the
\* call suspends on getDoc(users/uid).
UserTicketsStart(t, uid) ==
    /\ task[t].pc = "idle"
    /\ IF Truthy(cache.shopTag)
       THEN ListEntry(t, "getTicketsGeneratedByUser", uid, cache.shopTag.v)
       ELSE /\ task' = [task EXCEPT ![t] =
                [IdleTask EXCEPT !.op = "getTicketsGeneratedByUser",
                                 !.pc = "tagread", !.arg = uid]]
            /\ UNCHANGED ret
    /\ UNCHANGED <<storeVars, flightVars, serverVars, cache, populated, deleted, pf>>

\* The store answers getDoc inside getTicketsGeneratedByUser: the tag is cached
\* and getTicketsByPrefix(tag) is called; with no users document the prefix is
\* null and prefix.length throws.
UserTicketsTag(t) ==
    /\ task[t].op = "getTicketsGeneratedByUser" /\ task[t].pc = "tagread"
    /\ LET tag == SnapshotTag(task[t].arg)
       IN  /\ cache' = CacheWithTag(cache, tag)
           /\ IF tag = Null
              THEN /\ ret' = [NoReturn EXCEPT !.op = task[t].op, !.uid = task[t].arg]
                   /\ task' = [task EXCEPT ![t] = IdleTask]
              ELSE ListEntry(t, task[t].op, task[t].arg, tag.v)
    /\ UNCHANGED <<storeVars, flightVars, serverVars, populated, deleted, pf>>

-----------------------------------------------------------------------------
(* Prize listing and deletion of the web client, src/db/index.js lines 156-243 *)

\* query(prizesRef, where("creatorUserID", '==', user.uid)): the matching
\* documents in identifier order.
RECURSIVE SortIds(_)
SortIds(S) ==
    IF S = {} THEN <<>>
    ELSE LET m == CHOOSE x \in S : \A y \in S : x <= y
         IN  <<m>> \o SortIds(S \ {m})

PrizesOf(uid) ==
    LET ids == SortIds({x \in DOMAIN prizes : prizes[x].creatorUserID = uid})
    IN  [k \in 1..Len(ids) |-> [id |-> ids[k], data |-> prizes[ids[k]]]]

\* fullPrizeData
FullPrizeData(i, doc, info) ==
    [id |-> i + 1, docId |-> doc.id, name |-> info.name,
     description |-> info.description, image |-> info.image,
     quantity |-> doc.data.quantity, createdAt |-> doc.data.createdAt]

PrizeListReturned(tk, ok, result) ==
    [NoReturn EXCEPT !.op = "getPrizesGeneratedByUser", !.uid = tk.arg, !.ok = ok,
                     !.result = result, !.scanned = TRUE, !.after = tk.after,
                     !.gone = tk.gone]

DeleteReturned(tk, ok) == [NoReturn EXCEPT !.op = "deletePrize", !.id = tk.id, !.ok = ok]

\* History kept with a listing: the prizes that were created, whose metadata is
\* gone from 'prizes', and for which no deletePrize call is in progress, so that
\* the deletePrize call that removed the metadata has returned or failed.
RemovedPrizes ==
    {x \in 1..(nextId - 1) :
        /\ x \notin DOMAIN prizes
        /\ \A t \in Tasks : ~(task[t].op = "deletePrize" /\ task[t].id = x)}

\* getPrizesGeneratedByUser is entered: the query is built and getDocs(q) invoked,
\* before the cache is looked at.
PrizeListStart(t, uid) ==
    /\ task[t].pc = "idle"
    /\ task' = [task EXCEPT ![t] =
            [IdleTask EXCEPT !.op = "getPrizesGeneratedByUser", !.pc = "query",
                             !.arg = uid, !.after = deleted, !.gone = RemovedPrizes]]
    /\ UNCHANGED <<storeVars, flightVars, serverVars, cache, ret, populated, deleted, pf>>

\* The store answers the query.
PrizeListQuery(t) ==
    /\ task[t].op = "getPrizesGeneratedByUser" /\ task[t].pc = "query"
    /\ task' = [task EXCEPT ![t].pc = "snap", ![t].snap = PrizesOf(task[t].arg)]
    /\ UNCHANGED <<storeVars, flightVars, serverVars, cache, ret, populated, deleted, pf>>

\* A read of the listing rejects (the query or a getPrizeInfo): the call fails.
PrizeListFail(t) ==
    /\ task[t].op = "getPrizesGeneratedByUser" /\ task[t].pc \in {"query", "info"}
    /\ task' = [task EXCEPT ![t] = IdleTask]
    /\ ret' = PrizeListReturned(task[t], FALSE, <<>>)
    /\ UNCHANGED <<storeVars, flightVars, serverVars, cache, populated, deleted, pf>>

\* The continuation after await getDocs(q): return the cached prizes if there are
\* any (an empty array counts); otherwise enter the loop, or, with nothing to
\* join, store and return the empty list.
PrizeListCont(t) ==
    /\ task[t].op = "getPrizesGeneratedByUser" /\ task[t].pc = "snap"
    /\ IF Truthy(cache.prizeData)
       THEN /\ ret' = PrizeListReturned(task[t], TRUE, cache.prizeData.v)
            /\ task' = [task EXCEPT ![t] = IdleTask]
            /\ UNCHANGED cache
       ELSE IF Len(task[t].snap) = 0
       THEN /\ ret' = PrizeListReturned(task[t], TRUE, <<>>)
            /\ task' = [task EXCEPT ![t] = IdleTask]
            /\ cache' = [cache EXCEPT !.prizeData = Arr(<<>>)]
       ELSE /\ task' = [task EXCEPT ![t].pc = "info"]
            /\ UNCHANGED <<cache, ret>>
    /\ UNCHANGED <<storeVars, flightVars, serverVars, populated, deleted, pf>>

\* getPrizeInfo(doc.id): the store answers the read of 'prize-info'.
PrizeListInfo(t) ==
    /\ task[t].op = "getPrizesGeneratedByUser" /\ task[t].pc = "info"
    /\ LET x == task[t].snap[task[t].i + 1].id
       IN  task' = [task EXCEPT ![t].pc = "infogot",
                        ![t].got = IF x \in DOMAIN prizeInfo
                                   THEN [exists |-> TRUE, data |-> prizeInfo[x]]
                                   ELSE NoInfo]
    /\ UNCHANGED <<storeVars, flightVars, serverVars, cache, ret, populated, deleted, pf>>

\* The continuation after await getPrizeInfo: of a missing info document the
\* result is undefined and prizeInfoData.name throws; otherwise the joined record
\* is pushed, and after the last one the list is stored in the cache and returned.
PrizeListJoin(t) ==
    /\ task[t].op = "getPrizesGeneratedByUser" /\ task[t].pc = "infogot"
    /\ IF ~task[t].got.exists
       THEN /\ ret' = PrizeListReturned(task[t], FALSE, <<>>)
            /\ task' = [task EXCEPT ![t] = IdleTask]
            /\ UNCHANGED cache
       ELSE LET acc == Append(task[t].acc,
                         FullPrizeData(task[t].i, task[t].snap[task[t].i + 1],
                                       task[t].got.data))
            IN  IF task[t].i + 1 < Len(task[t].snap)
                THEN /\ task' = [task EXCEPT ![t].pc = "info", ![t].i = @ + 1,
                                             ![t].acc = acc, ![t].got = NoInfo]
                     /\ UNCHANGED <<cache, ret>>
                ELSE /\ cache' = [cache EXCEPT !.prizeData = Arr(acc)]
                     /\ ret' = PrizeListReturned(task[t], TRUE, acc)
                     /\ task' = [task EXCEPT ![t] = IdleTask]
    /\ UNCHANGED <<storeVars, flightVars, serverVars, populated, deleted, pf>>

Without(f, x) == [y \in DOMAIN f \ {x} |-> f[y]]

\* deletePrize(id) is entered: the delete of prizes/id is issued.
DeleteStart(t, id) ==
    /\ task[t].pc = "idle"
    /\ task' = [task EXCEPT ![t] =
            [IdleTask EXCEPT !.op = "deletePrize", !.pc = "meta", !.id = id]]
    /\ UNCHANGED <<storeVars, flightVars, serverVars, cache, ret, populated, deleted, pf>>

\* await deleteDoc(doc(db, "prizes", id)), then the second delete is issued.
DeleteMeta(t) ==
    /\ task[t].op = "deletePrize" /\ task[t].pc = "meta"
    /\ prizes' = Without(prizes, task[t].id)
    /\ task' = [task EXCEPT ![t].pc = "info"]
    /\ UNCHANGED <<users, ticketInfo, prizeInfo, flightVars, serverVars, cache, ret,
                   populated, deleted, pf>>

\* await deleteDoc(doc(db, "prize-info", id)) commits.
DeleteInfo(t) ==
    /\ task[t].op = "deletePrize" /\ task[t].pc = "info"
    /\ prizeInfo' = Without(prizeInfo, task[t].id)
    /\ task' = [task EXCEPT ![t].pc = "evict"]
    /\ UNCHANGED <<users, ticketInfo, prizes, flightVars, serverVars, cache, ret,
                   populated, deleted, pf>>

\* Either deleteDoc rejects: the call fails where it stands.
DeleteFail(t) ==
    /\ task[t].op = "deletePrize" /\ task[t].pc \in {"meta", "info"}
    /\ task' = [task EXCEPT ![t] = IdleTask]
    /\ ret' = DeleteReturned(task[t], FALSE)
    /\ UNCHANGED <<storeVars, flightVars, serverVars, cache, populated, deleted, pf>>

\* The continuation after the second delete: cache.prizeData = null if it was
\* set, and return true.
DeleteFinish(t) ==
    /\ task[t].op = "deletePrize" /\ task[t].pc = "evict"
    /\ cache' = IF Truthy(cache.prizeData) THEN [cache EXCEPT !.prizeData = Null]
                ELSE cache
    /\ ret' = DeleteReturned(task[t], TRUE)
    /\ deleted' = deleted \cup {task[t].id}
    /\ task' = [task EXCEPT ![t] = IdleTask]
    /\ UNCHANGED <<storeVars, flightVars, serverVars, populated, pf>>

-----------------------------------------------------------------------------
(* The prefix query as a pure function of (prefix, store keys) *)

MaxPrefixLen == 2

BoundsAlphabet == {99, 100, MaxChar}

BoundsPrefixes == StringsOf(BoundsAlphabet, 0, MaxPrefixLen)

BoundsKeys == StringsOf(BoundsAlphabet, 1, MaxPrefixLen + 1)

PfIdle == [prefix |-> <<>>, keys |-> {}, start |-> <<>>, stop |-> <<>>,
           out |-> <<>>, done |-> FALSE]

InitBounds ==
    /\ StoreEmpty
    /\ ServerIdle
    /\ authEmail = FixedEmails
    /\ ClientIdle
    /\ \E p \in BoundsPrefixes, k1 \in BoundsKeys, k2 \in BoundsKeys :
        pf = [PfIdle EXCEPT !.prefix = p, !.keys = {k1, k2}]

QueryByPrefix ==
    /\ UNCHANGED <<storeVars, flightVars, serverVars, clientVars>>
    /\ ~pf.done
    /\ pf' = [pf EXCEPT !.start = PrefixStart(pf.prefix),
                        !.stop = PrefixStop(pf.prefix),
                        !.out = RangeScan(pf.keys, PrefixStart(pf.prefix),
                                          PrefixStop(pf.prefix)),
                        !.done = TRUE]

NextBounds == QueryByPrefix

SpecBounds == InitBounds /\ [][NextBounds]_vars

\* C4: for a non-empty prefix whose last character is not the maximum character,
\* start = p, stop = p with its last code unit incremented, and the scan returns
\* exactly the keys beginning with p, in ascending order.
C4_PrefixScanExact ==
    (pf.done /\ pf.prefix # <<>> /\ pf.prefix[Len(pf.prefix)] # MaxChar) =>
        /\ pf.start = pf.prefix
        /\ pf.stop = [pf.prefix EXCEPT ![Len(pf.prefix)] = @ + 1]
        /\ SeqRange(pf.out) = {k \in pf.keys : StartsWith(k, pf.prefix)}
        /\ Len(pf.out) = Cardinality(SeqRange(pf.out))
        /\ \A i \in 1..Len(pf.out) - 1 : StrLess(pf.out[i], pf.out[i + 1])

\* Two keys "cc", "ccd" under prefix "cc", with the neighbour "cd" excluded.
C4_Witness ==
    /\ pf.done
    /\ pf.prefix = <<99, 99>>
    /\ pf.keys = {<<99, 99, 100>>, <<99, 100>>}
    /\ pf.out = <<<<99, 99, 100>>>>

-----------------------------------------------------------------------------
(* One client session over a store of tickets *)

ListPrefixes == ShopTags

StoredTicket == TicketDoc("e1", "m1", 1)

InitSession ==
    /\ users = EmptyMap
    /\ prizes = EmptyMap
    /\ prizeInfo = EmptyMap
    /\ \E S \in SUBSET SessionCodes : ticketInfo = [c \in S |-> StoredTicket]
    /\ ServerIdle
    /\ authEmail = FixedEmails
    /\ ClientIdle
    /\ pf = PfIdle

NextSession ==
    \/ \E t \in Tasks, p \in ListPrefixes : ListStart(t, p)
    \/ \E t \in Tasks : ListScan(t)
    \/ \E t \in Tasks : ListScanFail(t)
    \/ \E t \in Tasks : ListFinish(t)
    \/ \E d \in SaveInputs : saveTicketsToMemory(d)
    \/ clearCachedData

SpecSession == InitSession /\ [][NextSession]_vars

\* Task t enters getTicketsByPrefix(p) in this step: it either returns at once
\* or suspends on the range scan.
ListEntered(t, p) ==
    /\ task[t].pc = "idle"
    /\ \/ task'[t].pc = "scan" /\ task'[t].prefix = p
       \/ /\ task' = task /\ ret' # ret
          /\ ret'.op = "getTicketsByPrefix" /\ ret'.prefix = p /\ ~ret'.scanned

\* C1: while the cache holds the non-empty result of a getTicketsByPrefix(p) scan,
\* a further getTicketsByPrefix(p) invokes no range scan and returns that same
\* sequence; a call entered on the cleared cache invokes the range scan again.
C1_CacheRoundTrip ==
    [][\A t \in Tasks, p \in ListPrefixes :
        /\ (/\ ListEntered(t, p)
            /\ populated.valid
            /\ p = populated.prefix
            /\ cache.ticketData = Arr(populated.data))
           => (/\ task' = task
               /\ ret' = Returned("getTicketsByPrefix", p, TRUE, populated.data, FALSE))
        /\ (ListEntered(t, p) /\ cache = ClearedCache)
           => (task'[t].pc = "scan" /\ ret' = ret)]_vars

\* A call answered from the cache with the populated result, and, after a clear,
\* a call for the same prefix suspended on the range scan.
C1_Witness ==
    \E t \in Tasks :
        /\ ret.op = "getTicketsByPrefix" /\ ret.ok /\ ~ret.scanned /\ ret.result # <<>>
        /\ cache = ClearedCache
        /\ task[t].pc = "scan"
        /\ task[t].prefix = ret.prefix

\* C15: the cached ticketData, when there is one, is a flat sequence of ticket
\* records and the record at position i has id = i.
C15_SequentialTicketIds ==
    cache.ticketData.t = "array" =>
        \A i \in 1..Len(cache.ticketData.v) :
            /\ cache.ticketData.v[i].t = "ticket"
            /\ cache.ticketData.v[i].id = i

\* The call that settled last ran a range scan that returned no tickets, and the
\* cache still holds that empty result.
EmptyScanStands ==
    /\ ret.op = "getTicketsByPrefix" /\ ret.ok /\ ret.scanned /\ ret.result = <<>>
    /\ cache.ticketData = Arr(<<>>)

\* C19: no getTicketsByPrefix call returns an empty result without having run
\* the range scan, and a call entered while the cache holds the empty result of
\* a scan invokes the range scan again.
C19_EmptyNeverCached ==
    /\ []((ret.op = "getTicketsByPrefix" /\ ret.ok /\ ~ret.scanned)
            => ret.result # <<>>)
    /\ [][\A t \in Tasks, p \in ListPrefixes :
            (ListEntered(t, p) /\ EmptyScanStands)
                => (task'[t].pc = "scan" /\ ret' = ret)]_vars

\* After a scan that found nothing, every task of the session is suspended on a
\* new range scan.
C19_Witness ==
    /\ EmptyScanStands
    /\ \A t \in Tasks : task[t].op = "getTicketsByPrefix" /\ task[t].pc = "scan"

\* C3: every getTicketsByPrefix(prefix) that returns, returns only ticket records
\* whose code begins with prefix.
C3_OnlyMatchingTickets ==
    (ret.op = "getTicketsByPrefix" /\ ret.ok) =>
        \A i \in 1..Len(ret.result) :
            /\ ret.result[i].t = "ticket"
            /\ StartsWith(ret.result[i].code, ret.prefix)

-----------------------------------------------------------------------------
(* One client session of a shop owner: the shop tag and the tickets of the shop *)

\* The users collection: any of the uids may have an account, with either tag.
UserMaps ==
    UNION {[U -> {[createdAt |-> 1, shopTag |-> g] : g \in ShopTags}] : U \in SUBSET Uids}

InitShop ==
    /\ users \in UserMaps
    /\ prizes = EmptyMap
    /\ prizeInfo = EmptyMap
    /\ \E S \in SUBSET SessionCodes : ticketInfo = [c \in S |-> StoredTicket]
    /\ ServerIdle
    /\ authEmail = FixedEmails
    /\ ClientIdle
    /\ pf = PfIdle

NextShop ==
    \/ \E t \in Tasks, u \in Uids : TagStart(t, u)
    \/ \E t \in Tasks : TagRead(t)
    \/ \E t \in Tasks : TagFail(t)
    \/ \E t \in Tasks, u \in Uids : UserTicketsStart(t, u)
    \/ \E t \in Tasks : UserTicketsTag(t)
    \/ \E t \in Tasks : ListScan(t)
    \/ \E t \in Tasks : ListScanFail(t)
    \/ \E t \in Tasks : ListFinish(t)
    \/ clearCachedData

SpecShop == InitShop /\ [][NextShop]_vars

\* C13: a getUserShopTag(uid) call that returns, for a uid with a users document,
\* returns the shop tag stored in that document.
C13_TagOfTheUid ==
    (ret.op = "getUserShopTag" /\ ret.ok /\ ret.uid \in DOMAIN users)
        => ret.tag = Str(users[ret.uid].shopTag)

\* C16: a getTicketsGeneratedByUser call that ran the range scan with the
\* caller's own shop tag X returns only tickets whose code begins with X and '-'.
C16_ShopIsolation ==
    (/\ ret.op = "getTicketsGeneratedByUser" /\ ret.ok /\ ret.scanned
     /\ ret.uid \in DOMAIN users
     /\ ret.prefix = users[ret.uid].shopTag)
        => \A i \in 1..Len(ret.result) :
              StartsWith(ret.result[i].code, ret.prefix \o <<Dash>>)

\* The call that settled last was getUserShopTag(u), it returned null, and no
\* shop tag is cached.
NullTagStands(u) ==
    /\ ret.op = "getUserShopTag" /\ ret.ok /\ ret.uid = u /\ ret.tag = Null
    /\ ~Truthy(cache.shopTag)

\* Task t enters getUserShopTag(u) in this step.
TagEntered(t, u) ==
    /\ task[t].pc = "idle"
    /\ \/ task'[t].op = "getUserShopTag" /\ task'[t].arg = u
       \/ /\ task' = task /\ ret' # ret
          /\ ret'.op = "getUserShopTag" /\ ret'.uid = u /\ ~ret'.scanned

\* C20: a getUserShopTag(uid) call that read the store and found no users
\* document returns null, leaves cache.shopTag as it was and the store unchanged;
\* and a call for that uid entered after it, with no tag cached, reads the store.
C20_NoShopTag ==
    [][\A t \in Tasks :
        /\ (/\ task[t].op = "getUserShopTag" /\ task[t].pc = "tagread"
            /\ task[t].arg \notin DOMAIN users
            /\ task'[t].pc = "idle" /\ ret'.ok)
           => (/\ ret'.op = "getUserShopTag" /\ ret'.uid = task[t].arg
               /\ ret'.tag = Null
               /\ cache'.shopTag = cache.shopTag
               /\ <<users, ticketInfo, prizes, prizeInfo>>' =
                      <<users, ticketInfo, prizes, prizeInfo>>)
        /\ \A u \in Uids :
              (TagEntered(t, u) /\ NullTagStands(u))
                 => (task'[t].pc = "tagread" /\ ret' = ret)]_vars

\* getUserShopTag(u) has returned null for a uid without users document, and
\* every task of the session is reading users/u again.
C20_Witness ==
    \E u \in Uids :
        /\ u \notin DOMAIN users
        /\ NullTagStands(u)
        /\ \A t \in Tasks :
              /\ task[t].op = "getUserShopTag" /\ task[t].pc = "tagread"
              /\ task[t].arg = u

-----------------------------------------------------------------------------
(* The cloud functions under concurrent requests *)

\* u1 has an account with shop tag "ab"; u2 has signed in but has no account.
InitIssue ==
    /\ users = [u \in {"u1"} |-> [createdAt |-> 1, shopTag |-> <<97, 98>>]]
    /\ ticketInfo = EmptyMap
    /\ prizes = EmptyMap
    /\ prizeInfo = EmptyMap
    /\ ServerIdle
    /\ authEmail = FixedEmails
    /\ ClientIdle
    /\ pf = PfIdle

\* Slot 1 takes batches of up to MaxBatch tickets; slot 2 is the concurrent
\* request of a single ticket.
BatchOf(p) == IF p = 1 THEN MaxBatch ELSE MinAmount

NextIssue ==
    \/ \E p \in GtProcs, a \in Uids :
          \E n \in MinAmount..BatchOf(p) : GenerateTickets(p, a, n)
    \/ \E p \in GtProcs : GtReadUser(p)
    \/ \E p \in GtProcs : GtReadUserFail(p)
    \/ \E p \in GtProcs : GtCheckExists(p)
    \/ \E p \in GtProcs : GtCheckFail(p)
    \/ \E p \in GtProcs : GtLoop(p)
    \/ \E w \in pendingWrites : TicketWriteLand(w)
    \/ \E w \in pendingWrites : TicketWriteFail(w)

SpecIssue == InitIssue /\ [][NextIssue]_vars

\* One request slot of each callable function.
NextCalls ==
    \/ \E a \in Auths, n \in Amounts : GenerateTickets(1, a, n)
    \/ GtReadUser(1)
    \/ GtReadUserFail(1)
    \/ GtCheckExists(1)
    \/ GtCheckFail(1)
    \/ GtLoop(1)
    \/ \E w \in pendingWrites : TicketWriteLand(w)
    \/ \E w \in pendingWrites : TicketWriteFail(w)
    \/ \E p \in AnpProcs, a \in {NoAuth, "u1"}, q \in QuantityInputs :
            AddNewPrize(p, a, q)
    \/ \E p \in AnpProcs : AnpAdd(p)
    \/ \E p \in AnpProcs : AnpAddFail(p)
    \/ \E w \in pendingInfo : PrizeInfoLand(w)
    \/ \E w \in pendingInfo : PrizeInfoFail(w)

SpecCalls == InitIssue /\ [][NextCalls]_vars

\* C5: a ticket write never lands on a code that 'ticket-info' already holds, and
\* the email and memo of a stored ticket never change.
C5_TicketWrittenOnce ==
    /\ [](lastLand.fresh)
    /\ [][\A c \in DOMAIN ticketInfo :
            /\ c \in DOMAIN ticketInfo'
            /\ ticketInfo'[c].email = ticketInfo[c].email
            /\ ticketInfo'[c].memo = ticketInfo[c].memo]_vars

\* The writes that the call in slot p issues in this step.
IssuedBy(p) == {w \in pendingWrites' \ pendingWrites : w.proc = p}

\* The codes that the call in slot p adds to its result in this step.
AddedBy(p) == DOMAIN gt'[p].tickets \ DOMAIN gt[p].tickets

\* C6: a code enters the result, and is written, only in the step that follows
\* an existence check of that very code answering false; after a check answering
\* true the code is dropped: nothing is added or written and another code is
\* checked.
C6_OnlyUncheckedCodes ==
    [][\A p \in GtProcs :
        /\ \A c \in AddedBy(p) \cup {w.code : w \in IssuedBy(p)} :
              gt[p].pc = "got" /\ c = gt[p].code /\ ~gt[p].exists
        /\ (gt[p].pc = "got" /\ gt[p].exists /\ gt'[p].pc # "got") =>
              /\ gt'[p].pc = "exists"
              /\ gt'[p].tickets = gt[p].tickets
              /\ IssuedBy(p) = {}]_vars

\* One call has returned its tickets while another, after a check that answered
\* true, has dropped that code and is checking the next sample.
C6_Witness ==
    \E p \in GtProcs, q \in GtProcs :
        /\ gt[p].pc = "done" /\ DOMAIN gt[p].tickets # {}
        /\ gt[q].pc = "exists" /\ gt[q].exists
        /\ gt[q].code \notin DOMAIN gt[q].tickets

\* C7: a call that returns, returns exactly amount distinct codes, each the
\* caller's shop tag, a dash and a suffix, each ticket unredeemed, unshipped, with
\* no order and no prize, and all with one createdAt.
C7_BatchOfAmount ==
    \A p \in GtProcs :
        gt[p].pc = "done" =>
            /\ gt[p].amount >= MinAmount /\ gt[p].amount <= MaxAmount
            /\ Cardinality(DOMAIN gt[p].tickets) = gt[p].amount
            /\ \A c \in DOMAIN gt[p].tickets :
                  /\ \E sfx \in Suffixes : c = BuildCode(users[gt[p].auth].shopTag, sfx)
                  /\ ~gt[p].tickets[c].redeemed /\ ~gt[p].tickets[c].shipped
                  /\ gt[p].tickets[c].orderID = "null"
                  /\ gt[p].tickets[c].prizeID = "null"
                  /\ \A d \in DOMAIN gt[p].tickets :
                        gt[p].tickets[d].createdAt = gt[p].tickets[c].createdAt

\* C9: no call has returned a mapping holding a code whose write failed.
C9_WriteFailureSurfaces ==
    \A p \in GtProcs : gt[p].pc = "done" => DOMAIN gt[p].tickets \cap gt[p].lost = {}

\* C12: a call of addNewPrize that has returned an id has both documents of that
\* id in the store: prizes/id and prize-info/id (no prize is deleted here, so
\* both stay from the moment of the return on); in particular a call whose
\* prize-info write failed has not returned an id.
C12_PrizeCreatedWhole ==
    \A p \in AnpProcs :
        anp[p].pc = "done" =>
            /\ anp[p].id \in DOMAIN prizes
            /\ anp[p].id \in DOMAIN prizeInfo

\* A request of generateTickets, of addNewPrize, that must be rejected.
GtInvalid(g) == g.pc # "idle" /\ (g.auth = NoAuth \/ g.amount < 1 \/ g.amount > 10)

AnpInvalid(a) == a.pc # "idle" /\ (a.auth = NoAuth \/ a.quantity < 0 \/ a.quantity > 999)

RejectionOf(auth) == IF auth = NoAuth THEN "unauthenticated" ELSE "out-of-range"

\* C8: a request without identity fails with 'unauthenticated', one with amount
\* below 1 or above 10 (quantity below 0 or above 999) with 'out-of-range'; the
\* rejected request has made no store access, has no write in flight, and the
\* step that rejects it leaves the store unchanged.
C8_RejectedBeforeStore ==
    /\ [](\A p \in GtProcs : GtInvalid(gt[p]) =>
            /\ gt[p].pc = "failed" /\ gt[p].err = RejectionOf(gt[p].auth)
            /\ ~gt[p].touched
            /\ \A w \in pendingWrites : w.proc # p)
    /\ [](\A p \in AnpProcs : AnpInvalid(anp[p]) =>
            /\ anp[p].pc = "failed" /\ anp[p].err = RejectionOf(anp[p].auth)
            /\ ~anp[p].touched /\ anp[p].id = 0)
    /\ [][((\E p \in GtProcs : gt'[p] # gt[p] /\ GtInvalid(gt'[p]))
           \/ (\E p \in AnpProcs : anp'[p] # anp[p] /\ AnpInvalid(anp'[p])))
          => /\ <<users, ticketInfo, prizes, prizeInfo>>' = <<users, ticketInfo, prizes, prizeInfo>>
             /\ pendingWrites' = pendingWrites
             /\ pendingInfo' = pendingInfo]_vars

\* With tickets and a prize in the store: generateTickets rejected for amount 11
\* and addNewPrize rejected for quantity 1000.
C8_Witness ==
    /\ gt[1].pc = "failed" /\ gt[1].auth = "u1" /\ gt[1].amount = 11
    /\ gt[1].err = "out-of-range"
    /\ anp[1].pc = "failed" /\ anp[1].auth = "u1" /\ anp[1].quantity = 1000
    /\ anp[1].err = "out-of-range"
    /\ DOMAIN ticketInfo # {}
    /\ DOMAIN prizes # {}

-----------------------------------------------------------------------------
(* The collision-retry loop with a store that answers and fair sampling *)

NextRetry ==
    \/ \E p \in GtProcs, a \in Uids :
          \E n \in MinAmount..BatchOf(p) : GenerateTickets(p, a, n)
    \/ \E p \in GtProcs : GtReadUser(p)
    \/ \E p \in GtProcs : GtCheckExists(p)
    \/ \E p \in GtProcs : GtLoop(p)
    \/ \E w \in pendingWrites : TicketWriteLand(w)

\* The step of the loop in slot p whose sample is b.
GtLoopSampling(p, b) ==
    GtLoop(p) /\ gt'[p].code = BuildCode(gt[p].shopTag, HexSuffix(b))

\* Every read is answered, every write commits, and every value of randomBytes
\* that can be drawn again and again is drawn.
FairRetry ==
    /\ \A p \in GtProcs : WF_vars(GtReadUser(p)) /\ WF_vars(GtCheckExists(p))
    /\ \A p \in GtProcs : \A b \in RandomTriples : SF_vars(GtLoopSampling(p, b))
    /\ WF_vars(\E w \in pendingWrites : TicketWriteLand(w))

SpecRetry == InitIssue /\ [][NextRetry]_vars /\ FairRetry

InLoop(p) == gt[p].pc \in {"exists", "got"}

\* Every suffix of the shop tag is taken in 'ticket-info'.
AllOccupied(shopTag) ==
    \A sfx \in Suffixes : BuildCode(shopTag, sfx) \in DOMAIN ticketInfo

\* The call in slot p faces a check that answers, or has answered, true with
\* every suffix taken.
Stuck(p) ==
    /\ AllOccupied(gt[p].shopTag)
    /\ gt[p].pc = "exists" \/ (gt[p].pc = "got" /\ gt[p].exists)

\* C17: a call in the retry loop eventually returns unless every suffix of its
\* shop tag gets taken; a call whose check runs with every suffix taken stays in
\* the loop for ever.
C17_RetryLoopTerminates ==
    /\ \A p \in GtProcs :
          InLoop(p) ~> (gt[p].pc = "done" \/ AllOccupied(gt[p].shopTag))
    /\ [][\A p \in GtProcs : Stuck(p) => (InLoop(p))' /\ Stuck(p)']_vars

\* One call has returned its tickets and another is in the loop with every
\* suffix of its shop tag taken.
C17_Witness ==
    \E p \in GtProcs, q \in GtProcs :
        /\ gt[p].pc = "done" /\ DOMAIN gt[p].tickets # {}
        /\ Stuck(q)

-----------------------------------------------------------------------------
(* Prizes: creation by the cloud function, listing and deletion by the client *)

\* The signed-in user of the client session.
SessionUser == "u1"

InitPrize == InitIssue

NextPrize ==
    \/ \E p \in AnpProcs : AddNewPrize(p, SessionUser, 9990)
    \/ \E p \in AnpProcs : AnpAdd(p)
    \/ \E p \in AnpProcs : AnpAddFail(p)
    \/ \E w \in pendingInfo : PrizeInfoLand(w)
    \/ \E w \in pendingInfo : PrizeInfoFail(w)
    \/ \E t \in Tasks : PrizeListStart(t, SessionUser)
    \/ \E t \in Tasks : PrizeListQuery(t)
    \/ \E t \in Tasks : PrizeListFail(t)
    \/ \E t \in Tasks : PrizeListCont(t)
    \/ \E t \in Tasks : PrizeListInfo(t)
    \/ \E t \in Tasks : PrizeListJoin(t)
    \/ \E t \in Tasks, x \in 1..(nextId - 1) : DeleteStart(t, x)
    \/ \E t \in Tasks : DeleteMeta(t)
    \/ \E t \in Tasks : DeleteInfo(t)
    \/ \E t \in Tasks : DeleteFail(t)
    \/ \E t \in Tasks : DeleteFinish(t)
    \/ clearCachedData

SpecPrize == InitPrize /\ [][NextPrize]_vars

\* No addNewPrize call and no deletePrize call is in progress, and no write that
\* such a call issued is still in flight.
PrizesQuiet ==
    /\ \A p \in AnpProcs : Settled(anp[p].pc)
    /\ \A t \in Tasks : task[t].op # "deletePrize"
    /\ pendingInfo = {}

\* C18: whenever no addNewPrize and no deletePrize is in progress, prizes and
\* prize-info hold the same identifiers.
C18_PrizePair == PrizesQuiet => DOMAIN prizes = DOMAIN prizeInfo

\* C14: a getPrizesGeneratedByUser call entered while prizeData is cached issues
\* no query: it never becomes a call that waits for the store.
C14_CachedPrizesNoQuery ==
    [][\A t \in Tasks :
        (task[t].pc = "idle" /\ task'[t].op = "getPrizesGeneratedByUser")
            => ~Truthy(cache.prizeData)]_vars

\* C22: a getPrizesGeneratedByUser call returns no prize whose metadata a
\* finished deletePrize call had removed before the listing started.
C22_NoStalePrize ==
    (ret.op = "getPrizesGeneratedByUser" /\ ret.ok) =>
        \A k \in 1..Len(ret.result) : ret.result[k].docId \notin ret.gone

\* Task t returns from deletePrize in this step.
DeleteReturns(t) == task[t].op = "deletePrize" /\ task[t].pc = "evict" /\ task'[t].pc = "idle"

\* C2: once deletePrize(id) has returned true, neither prizes/id nor prize-info/id
\* exists, the cached prizeData is unset at the return, and a listing started
\* afterwards does not contain the prize.
C2_DeleteRemovesPrize ==
    /\ [](\A x \in deleted : x \notin DOMAIN prizes /\ x \notin DOMAIN prizeInfo)
    /\ []((ret.op = "getPrizesGeneratedByUser" /\ ret.ok) =>
            \A k \in 1..Len(ret.result) : ret.result[k].docId \notin ret.after)
    /\ [][\A t \in Tasks : DeleteReturns(t) => ~Truthy(cache'.prizeData)]_vars

-----------------------------------------------------------------------------
(* Account bootstrap under concurrent and repeated sign-ins *)

InitAccount ==
    /\ StoreEmpty
    /\ ServerIdle
    /\ authEmail \in [Uids -> Emails]
    /\ ClientIdle
    /\ pf = PfIdle

NextAccount ==
    \/ \E p \in UliProcs, a \in Auths : UserLoggedIn(p, a)
    \/ \E p \in UliProcs : UliGetUser(p)
    \/ \E p \in UliProcs : UliReadFail(p)
    \/ \E p \in UliProcs : UliAccountExists(p)
    \/ \E p \in UliProcs : UliWrite(p)
    \/ \E p \in UliProcs : UliWriteFail(p)
    \/ Tick

SpecAccount == InitAccount /\ [][NextAccount]_vars

\* The number of characters before the first '@'.
LocalPartLength(e) ==
    CHOOSE n \in 0..Len(e) :
        /\ n = Len(e) \/ e[n + 1] = 64
        /\ \A j \in 1..n : e[j] # 64

\* C11: the shop tag of every account written by initUserAccount has
\* min(5, length of the local part) characters, and its i-th character is the
\* i-th character of the e-mail in lower case.
C11_ShopTagFromEmail ==
    \A u \in DOMAIN users :
        LET e == authEmail[u]
            n == LocalPartLength(e)
            m == IF n < 5 THEN n ELSE 5
            t == users[u].shopTag
        IN  n > 0 =>
              /\ Len(t) = m
              /\ \A i \in 1..m :
                    t[i] = IF e[i] \in 65..90 THEN e[i] + 32 ELSE e[i]

\* Accounts exist for a local part longer than 5 characters, cut and lowercased,
\* and for one shorter than 5.
C11_Witness ==
    \E u \in DOMAIN users, v \in DOMAIN users :
        /\ LocalPartLength(authEmail[u]) > 5
        /\ Len(users[u].shopTag) = 5
        /\ users[u].shopTag # SubSeq(authEmail[u], 1, 5)
        /\ LocalPartLength(authEmail[v]) \in 1..4
        /\ Len(users[v].shopTag) = LocalPartLength(authEmail[v])

-----------------------------------------------------------------------------
(* One session that issues tickets, saves them to the cache and lists them *)

\* The shop of u1 has sold nothing yet, or holds one ticket of an earlier session.
InitWarm ==
    /\ users = [u \in {"u1"} |-> [createdAt |-> 1, shopTag |-> <<97, 98>>]]
    /\ \E S \in {{}, {BuildCode(<<97, 98>>, HexSuffix(<<0, 0, 10>>))}} :
            ticketInfo = [c \in S |-> StoredTicket]
    /\ prizes = EmptyMap
    /\ prizeInfo = EmptyMap
    /\ ServerIdle
    /\ authEmail = FixedEmails
    /\ ClientIdle
    /\ pf = PfIdle

\* The tickets that a generateTickets call returned, as the array of records
\* that the session hands to saveTicketsToMemory.
IssuedRecords(g) ==
    LET codes == SortKeys(DOMAIN g.tickets)
    IN  [i \in 1..Len(codes) |-> TicketRec(0, codes[i], g.tickets[codes[i]])]

\* The session issues its next request once the tickets of the last one are saved.
IssueNext(p, amount) ==
    /\ gt[p].pc = "idle"
    /\ GenerateTickets(p, "u1", amount)

\* generateTickets has returned and its writes have committed: the session
\* passes the issued tickets to saveTicketsToMemory.
SaveIssued(p) ==
    /\ gt[p].pc = "done"
    /\ \A w \in pendingWrites : w.proc # p
    /\ cache' = [cache EXCEPT !.ticketData = SavedTickets(cache, IssuedRecords(gt[p]))]
    /\ populated' = NotPopulated
    /\ gt' = [gt EXCEPT ![p] = IdleGt]
    /\ UNCHANGED <<storeVars, flightVars, anp, uli, authEmail, task, ret, deleted, pf>>

NextWarm ==
    \/ \E n \in MinAmount..MaxBatch : IssueNext(1, n)
    \/ GtReadUser(1)
    \/ GtCheckExists(1)
    \/ GtLoop(1)
    \/ \E w \in pendingWrites : TicketWriteLand(w)
    \/ SaveIssued(1)
    \/ \E t \in Tasks : ListStart(t, users["u1"].shopTag)
    \/ \E t \in Tasks : ListScan(t)
    \/ \E t \in Tasks : ListScanFail(t)
    \/ \E t \in Tasks : ListFinish(t)

SpecWarm == InitWarm /\ [][NextWarm]_vars

\* No request is running, no write is in flight, every issued ticket is saved.
AllSaved == pendingWrites = {} /\ \A p \in GtProcs : gt[p].pc = "idle"

\* The codes of the tickets stored in 'ticket-info' under prefix.
StoredUnder(prefix) == {c \in DOMAIN ticketInfo : StartsWith(c, prefix)}

\* C21: when every issued ticket has been saved, a getTicketsByPrefix(shopTag)
\* call answered from the cache returns ticket records whose codes are exactly
\* the codes stored in 'ticket-info' under that shop tag.
C21_CacheCoherent ==
    [][\A t \in Tasks, p \in ShopTags :
        (AllSaved /\ ListEntered(t, p) /\ task' = task)
            => /\ \A i \in 1..Len(ret'.result) : ret'.result[i].t = "ticket"
               /\ {ret'.result[i].code : i \in 1..Len(ret'.result)} = StoredUnder(p)]_vars

\* C23: no two userLoggedIn calls have written the users document of the same
\* uid, and a users document, once it exists, is never changed.
C23_SingleAccountCreation ==
    /\ [](\A p \in UliProcs, q \in UliProcs :
            (p # q /\ uli[p].wrote /\ uli[q].wrote) => uli[p].auth # uli[q].auth)
    /\ [][\A u \in DOMAIN users : u \in DOMAIN users' /\ users'[u] = users[u]]_vars

\* C10: a userLoggedIn call entered when users/uid already exists never writes,
\* leaves the users collection as it is, answers 'success', and fails only if the
\* identity lookup or the read of users/uid itself rejects.
C10_RetryIsNoOp ==
    /\ [](\A p \in UliProcs : uli[p].late =>
            /\ ~uli[p].wrote /\ uli[p].pc # "write"
            /\ uli[p].pc = "done" => uli[p].result = "success"
            /\ uli[p].pc = "failed" => uli[p].fault)
    /\ [][\A p \in UliProcs :
            (uli[p].late /\ ~Settled(uli[p].pc) /\ uli'[p] # uli[p])
                => users' = users]_vars

\* A retry has answered 'success' at a later time than the account's createdAt.
C10_Witness ==
    \E p \in UliProcs :
        /\ uli[p].late /\ uli[p].pc = "done" /\ uli[p].result = "success"
        /\ uli[p].auth \in DOMAIN users
        /\ users[uli[p].auth].createdAt < now

====
